---- MODULE Spec2Model ----
(***************************************************************************)
(* The research multi-agent workflow of src/research_multi_agent: the      *)
(* planner, researcher and writer nodes, the two graphs that wire them     *)
(* (graph.py) and the text extractors of the planner.                      *)
(*                                                                         *)
(* Text is a sequence of lines; a line is a sequence of atoms; an atom is  *)
(* a chunk of characters that the extractors never split: a keyword, a     *)
(* run of letters, or one punctuation character.  len() of a line is the   *)
(* sum of its atoms' character counts.                                     *)
(***************************************************************************)
EXTENDS Integers, Sequences, FiniteSets, TLC

VARIABLES
    graph,                    \* which factory of graph.py built the graph
    state_format,             \* how the runtime hands the state to a callable
    pc,                       \* the node the controller runs next
    messages,                 \* MessagesState.messages
    research_plan,            \* state.py:37
    research_results,         \* state.py:40
    research_iterations,      \* state.py:41
    max_research_iterations,  \* state.py:42
    final_report,             \* state.py:45
    current_agent,            \* state.py:48
    scan,                     \* the planner extractors' loop variables
    last,                     \* history: the last node invocation, its path and inputs
    stage_invocations,        \* history: node invocations so far in this run
    invoked,                  \* history: the nodes invoked so far, in order
    cancel,                   \* the caller's cancellation request
    factory,                  \* a graph factory call and the checkpointer it is given
    extraction,               \* a tool-result payload and the result made from it
    two,                      \* two runs side by side and the list objects they hold
    focus                     \* a call of the researcher node up to its focus slice

vars == <<graph, state_format, pc, messages, research_plan, research_results,
          research_iterations, max_research_iterations, final_report,
          current_agent, scan, last, stage_invocations, invoked, cancel,
          factory, extraction, two, focus>>

(* ------------------------------ bounds -------------------------------- *)

MaxBudget == 4
MaxNew == 2
MaxSegments == 4
MaxRepeat == 11

(* ------------------------------- text --------------------------------- *)

\* Characters in an atom.
AtomLen(a) ==
    CASE a = "Subtopics" -> 9
      [] a = "Subtopic" -> 8
      [] a = "Questions" -> 9
      [] a = "Main topic" -> 10
      [] a = "Topic" -> 5
      [] a = "Notes" -> 5
      [] a = "ab" -> 2
      [] a = "abcde" -> 5
      [] a = "abcdefghijkl" -> 12
      [] OTHER -> 1

RECURSIVE StrLen(_)
StrLen(line) == IF line = <<>> THEN 0 ELSE AtomLen(Head(line)) + StrLen(Tail(line))

\* str.strip(): whitespace off both ends.
RECURSIVE LStripSpace(_)
LStripSpace(line) ==
    IF line # <<>> /\ Head(line) = " " THEN LStripSpace(Tail(line)) ELSE line

RECURSIVE RStripSpace(_)
RStripSpace(line) ==
    IF line # <<>> /\ line[Len(line)] = " "
    THEN RStripSpace(SubSeq(line, 1, Len(line) - 1))
    ELSE line

Strip(line) == RStripSpace(LStripSpace(line))

\* The character set of the lstrip call of planner.py:180 and 212: hyphen,
\* space, the bullet U+2022 (atom "bullet"), asterisk, the digits 1-9, full stop.
BulletChars == {"-", " ", "bullet", "*", "1", "2", "3", "4", "5", "6", "7", "8", "9", "."}

RECURSIVE LStripBullets(_)
LStripBullets(line) ==
    IF line # <<>> /\ Head(line) \in BulletChars THEN LStripBullets(Tail(line)) ELSE line

\* 'subtopic' in line.lower(), 'question' in line.lower(), ':' in line,
\* line.endswith(c).
HasSubtopicWord(line) == \E i \in 1..Len(line) : line[i] \in {"Subtopics", "Subtopic"}
HasQuestionWord(line) == \E i \in 1..Len(line) : line[i] = "Questions"
HasColon(line) == \E i \in 1..Len(line) : line[i] = ":"
EndsWith(line, c) == line # <<>> /\ line[Len(line)] = c

\* 'main topic' in line.lower() or 'topic:' in line.lower()
HasTopicLabel(line) ==
    \/ \E i \in 1..Len(line) : line[i] = "Main topic"
    \/ \E i \in 1..(Len(line) - 1) :
          line[i] \in {"Topic", "Subtopic"} /\ line[i + 1] = ":"

\* line.split(':', 1)[1].strip()
RECURSIVE AfterFirstColon(_)
AfterFirstColon(line) ==
    IF line = <<>> THEN <<>>
    ELSE IF Head(line) = ":" THEN Tail(line)
    ELSE AfterFirstColon(Tail(line))

\* One iteration of the for loop of _extract_main_topic; found is the topic
\* an earlier line returned, <<>> while there is none.
MainTopicLoopBody(found, line) ==
    LET topic == Strip(AfterFirstColon(line))
    IN  IF found # <<>> THEN found
        ELSE IF HasTopicLabel(line) /\ HasColon(line) /\ topic # <<>> THEN topic
        ELSE <<>>

RECURSIVE MainTopicLoop(_, _)
MainTopicLoop(found, content) ==
    IF content = <<>> THEN found
    ELSE MainTopicLoop(MainTopicLoopBody(found, Head(content)), Tail(content))

MainTopicResult(found, fallback) == IF found = <<>> THEN fallback ELSE found

_extract_main_topic(content, fallback) == MainTopicResult(MainTopicLoop(<<>>, content), fallback)

(* ------------------- planner extractors, line by line ------------------ *)

\* The loop variables of one extractor: in_*_section, whether the loop has
\* hit its break, and the list built so far.
ScanStart == [in_section |-> FALSE, done |-> FALSE, items |-> <<>>]

SubtopicMinLen == 3
QuestionMinLen == 10
SubtopicCap == 7
QuestionCap == 10

\* One iteration of the for loop of _extract_subtopics.
SubtopicsLoopBody(s, raw) ==
    LET line == Strip(raw)
        cleaned == Strip(LStripBullets(line))
    IN  IF s.done THEN s
        ELSE IF HasSubtopicWord(line) /\ HasColon(line)
             THEN [s EXCEPT !.in_section = TRUE]
        ELSE IF s.in_section /\ line # <<>> /\ EndsWith(line, ":") /\ HasQuestionWord(line)
             THEN [s EXCEPT !.done = TRUE]
        ELSE IF s.in_section /\ line # <<>> /\ cleaned # <<>> /\ StrLen(cleaned) > SubtopicMinLen
             THEN [s EXCEPT !.items = Append(@, cleaned)]
        ELSE s

\* One iteration of the for loop of _extract_research_questions.
QuestionsLoopBody(s, raw) ==
    LET line == Strip(raw)
        cleaned == Strip(LStripBullets(line))
    IN  IF s.done THEN s
        ELSE IF HasQuestionWord(line) /\ HasColon(line)
             THEN [s EXCEPT !.in_section = TRUE]
        ELSE IF s.in_section /\ line # <<>> /\ EndsWith(line, ":") /\ ~HasQuestionWord(line)
             THEN [s EXCEPT !.done = TRUE]
        ELSE IF s.in_section /\ line # <<>> /\ cleaned # <<>> /\ StrLen(cleaned) > QuestionMinLen
             THEN [s EXCEPT !.items =
                      Append(@, IF EndsWith(cleaned, "?") THEN cleaned ELSE Append(cleaned, "?"))]
        ELSE s

Take(seq, n) == SubSeq(seq, 1, IF Len(seq) < n THEN Len(seq) ELSE n)

\* A plausible slip: the subtopics returned without the cap.
SubtopicsResultUncapped(s) ==
    IF s.items = <<>> THEN << <<"General research topic">> >> ELSE s.items

\* A plausible slip: the subtopics returned as found, with no fallback entry.
SubtopicsResultNoFallback(s) == Take(s.items, SubtopicCap)

\* What the extractors return once the loop is over (planner.py:184-188, 219-223).
SubtopicsResult(s) ==
    Take(IF s.items = <<>> THEN << <<"General research topic">> >> ELSE s.items, SubtopicCap)

QuestionsResult(s) ==
    Take(IF s.items = <<>> THEN << <<"What are the key aspects of this topic", "?">> >> ELSE s.items,
         QuestionCap)

RECURSIVE SubtopicsLoop(_, _)
SubtopicsLoop(s, content) ==
    IF content = <<>> THEN s
    ELSE SubtopicsLoop(SubtopicsLoopBody(s, Head(content)), Tail(content))

RECURSIVE QuestionsLoop(_, _)
QuestionsLoop(s, content) ==
    IF content = <<>> THEN s
    ELSE QuestionsLoop(QuestionsLoopBody(s, Head(content)), Tail(content))

_extract_subtopics(content) == SubtopicsResult(SubtopicsLoop(ScanStart, content))
_extract_research_questions(content) == QuestionsResult(QuestionsLoop(ScanStart, content))

\* The three extractors' loops over one text, and one more line of them.
\* segments counts the runs of lines taken so far when an answer is read
\* run by run.
NoScan == [sub |-> ScanStart, q |-> ScanStart, topic |-> <<>>, segments |-> 0]

ScanLineOf(sc, line) ==
    [sub |-> SubtopicsLoopBody(sc.sub, line),
     q |-> QuestionsLoopBody(sc.q, line),
     topic |-> MainTopicLoopBody(sc.topic, line),
     segments |-> sc.segments]

\* n more lines, all the same.
RECURSIVE ScanLinesOf(_, _, _)
ScanLinesOf(sc, line, n) ==
    IF n = 0 THEN sc ELSE ScanLinesOf(ScanLineOf(sc, line), line, n - 1)

ScanOf(content) ==
    [sub |-> SubtopicsLoop(ScanStart, content),
     q |-> QuestionsLoop(ScanStart, content),
     topic |-> MainTopicLoop(<<>>, content),
     segments |-> 0]

(* ------------------------------ state --------------------------------- *)

\* Python's None in research_plan and in final_report.
NoPlan == [none |-> TRUE]
NoReport == [none |-> TRUE]

HumanMessage(content) == [role |-> "user", name |-> "None", content |-> content]
AIMessage(content, name) == [role |-> "assistant", name |-> name, content |-> content]

\* [msg for msg in messages if isinstance(msg, HumanMessage) or ... "user"]
user_messages(msgs) == SelectSeq(msgs, LAMBDA m : m.role = "user")

ResearchPlan(main_topic, subtopics, research_questions) ==
    [main_topic |-> main_topic, subtopics |-> subtopics,
     research_questions |-> research_questions]

\* What the caller may pass as messages: nothing, one request, a request
\* followed by an assistant turn, two requests.
InitMessages ==
    { <<>>,
      <<HumanMessage(<<"q1">>)>>,
      <<HumanMessage(<<"q1">>), AIMessage(<<"a1">>, "None")>>,
      <<HumanMessage(<<"q1">>), HumanMessage(<<"q2">>)>> }

(* ----------------------------- Plan Stage ----------------------------- *)

\* Lines the model may answer with.
SubHeader == <<"Subtopics", ":">>
QHeader == <<"Questions", ":">>
OtherHeader == <<"Notes", ":">>
TopicLine == <<"Main topic", ":", " ", "abcde">>
ShortItem == <<"-", " ", "ab">>
MidItem == <<"-", " ", "abcde">>
LongItem == <<"1", ".", " ", "abcdefghijkl">>
LongQuestion == <<"*", " ", "abcdefghijkl", "?">>
TenthItem == <<"1", "0", ".", " ", "abcdefghijkl">>
BlankLine == <<" ">>

\* Answers of the planner's model in a workflow run: one without any
\* section, one with one subtopic, one with two subtopics and a question.
PlanTexts ==
    { << <<"abcde">>, LongItem >>,
      << TopicLine, SubHeader, MidItem, ShortItem >>,
      << SubHeader, MidItem, LongItem, QHeader, LongQuestion >> }

\* What the planner's collaborators may do: raise (model, prompt loading),
\* answer with content that is not a string (a list of content blocks, on
\* which content.split raises), or answer with text, given as the state the
\* extractors' loops end in on it.
PlannerOutcomes ==
    { [kind |-> "raise", scan |-> NoScan], [kind |-> "blocks", scan |-> NoScan] }
    \cup { [kind |-> "text", scan |-> ScanOf(t)] : t \in PlanTexts }

\* planner.py:76-98: the parsed plan, or the plan built from the user query
\* when extraction raises.
ParsedPlan(outcome, last_user_message) ==
    IF outcome.kind = "text"
    THEN ResearchPlan(MainTopicResult(outcome.scan.topic, last_user_message),
                      SubtopicsResult(outcome.scan.sub),
                      QuestionsResult(outcome.scan.q))
    ELSE ResearchPlan(last_user_message,
                      << <<"Research aspect of: ">> \o last_user_message >>,
                      << <<"What information is available about: ">> \o last_user_message
                            \o <<"?">> >>)

\* planner.py:119-133: the plan of the except branch, built from the last
\* message of the state, whoever sent it.
FallbackPlan(msgs) ==
    LET user_query == IF msgs # <<>> THEN msgs[Len(msgs)].content ELSE <<"Unknown query">>
    IN  ResearchPlan(user_query,
                     << <<"General research on: ">> \o user_query >>,
                     << <<"What information is available about: ">> \o user_query
                           \o <<"?">> >>)

\* A plausible slip in the except branch: the error message alone, without
\* the fallback plan.
call_planner_agent_no_fallback_plan(msgs, outcome) ==
    LET um == user_messages(msgs)
    IN  IF um = <<>> \/ outcome.kind = "raise"
        THEN [path |-> "exception",
              messages |-> <<AIMessage(<<"Error creating research plan">>, "planner")>>,
              research_plan |-> NoPlan,
              current_agent |-> "researcher"]
        ELSE [path |-> IF outcome.kind = "text" THEN "parsed" ELSE "parse_failure",
              messages |-> <<AIMessage(<<"Research plan created">>, "planner")>>,
              research_plan |-> ParsedPlan(outcome, um[Len(um)].content),
              current_agent |-> "researcher"]

\* The delta call_planner_agent returns, and the path it took.
call_planner_agent(msgs, outcome) ==
    LET um == user_messages(msgs)
    IN  IF um = <<>> \/ outcome.kind = "raise"
        THEN [path |-> "exception",
              messages |-> <<AIMessage(<<"Error creating research plan">>, "planner")>>,
              research_plan |-> FallbackPlan(msgs),
              current_agent |-> "researcher"]
        ELSE [path |-> IF outcome.kind = "text" THEN "parsed" ELSE "parse_failure",
              messages |-> <<AIMessage(<<"Research plan created">>, "planner")>>,
              research_plan |-> ParsedPlan(outcome, um[Len(um)].content),
              current_agent |-> "researcher"]

(* --------------------------- Research Stage --------------------------- *)

\* The i-th result _extract_research_results_from_response returns in the
\* research call made with research_iterations = k.
NewResult(k, i) == [iteration |-> k + 1, index |-> i]
NewResults(k, n) == [i \in 1..n |-> NewResult(k, i)]

\* The source field of the results of one call: the urls the payloads
\* carried, or "Unknown source" for payloads without a url.
Sourced(results, sources) ==
    [i \in 1..Len(results) |->
        [iteration |-> results[i].iteration, index |-> results[i].index,
         source |-> IF sources = "Unknown source" THEN "Unknown source"
                    ELSE IF i % 2 = 1 THEN "http://a" ELSE "http://b"]]

\* What the researcher's collaborators may do: raise (model, prompt, tools,
\* the ReAct agent), or return a transcript from which n results are
\* extracted, with urls or without.
ResearchOutcomes ==
    {[kind |-> "raise", n |-> 0, sources |-> "urls"],
     [kind |-> "ok", n |-> 0, sources |-> "urls"]}
    \cup {[kind |-> "ok", n |-> n, sources |-> src] :
             n \in 1..MaxNew, src \in {"urls", "Unknown source"}}

\* A plausible slip in the first rule: the count without the current call.
_should_continue_research_stale_count(iterations, max_iterations, plan, current_results) ==
    IF iterations >= max_iterations THEN FALSE
    ELSE IF Len(current_results) < Len(plan.subtopics) * 2 THEN TRUE
    ELSE LET results_per_iteration == Len(current_results) \div (iterations + 1)
             expected_coverage == results_per_iteration * (iterations + 1)
         IN  expected_coverage < Len(plan.subtopics)

\* A plausible slip in the second rule: one result per subtopic.
_should_continue_research_one_each(iterations, max_iterations, plan, current_results) ==
    IF iterations + 1 >= max_iterations THEN FALSE
    ELSE IF Len(current_results) < Len(plan.subtopics) THEN TRUE
    ELSE LET results_per_iteration == Len(current_results) \div (iterations + 1)
             expected_coverage == results_per_iteration * (iterations + 1)
         IN  expected_coverage < Len(plan.subtopics)

\* The last rule with a division that loses nothing: expected_coverage is
\* the result count.
_should_continue_research_exact_division(iterations, max_iterations, plan, current_results) ==
    IF iterations + 1 >= max_iterations THEN FALSE
    ELSE IF Len(current_results) < Len(plan.subtopics) * 2 THEN TRUE
    ELSE Len(current_results) < Len(plan.subtopics)

\* researcher.py:296-317, called with state.research_iterations still the
\* value on entry and current_results the combined list.
_should_continue_research(iterations, max_iterations, plan, current_results) ==
    IF iterations + 1 >= max_iterations THEN FALSE
    ELSE IF Len(current_results) < Len(plan.subtopics) * 2 THEN TRUE
    ELSE LET results_per_iteration == Len(current_results) \div (iterations + 1)
             expected_coverage == results_per_iteration * (iterations + 1)
         IN  expected_coverage < Len(plan.subtopics)

\* A plausible slip: the new results put first.
all_results_new_first(results, new_results) == new_results \o results

\* researcher.py:87: list(research_results) + new_results.
all_results(results, new_results) == results \o new_results

\* The deltas call_research_agent returns, with the path taken.
\* has_results tells whether the delta carries the key "research_results";
\* without it the state keeps its value.

\* A plausible slip: the except branch returning the counter as it was.
research_error_delta_same_count(results, iterations) ==
    [path |-> "exception", new_results |-> <<>>,
     messages |-> <<AIMessage(<<"Error during research">>, "researcher")>>,
     has_results |-> TRUE, research_results |-> results,
     research_iterations |-> iterations,
     current_agent |-> "writer"]

\* researcher.py:119-131, the except branch.
research_error_delta(results, iterations) ==
    [path |-> "exception", new_results |-> <<>>,
     messages |-> <<AIMessage(<<"Error during research">>, "researcher")>>,
     has_results |-> TRUE, research_results |-> results,
     research_iterations |-> iterations + 1,
     current_agent |-> "writer"]

\* researcher.py:39-50, the iteration limit.
research_limit_delta(iterations) ==
    [path |-> "skip", new_results |-> <<>>,
     messages |-> <<AIMessage(<<"Maximum iterations reached">>, "researcher")>>,
     has_results |-> FALSE, research_results |-> <<>>,
     research_iterations |-> iterations,
     current_agent |-> "writer"]

\* researcher.py:83-117, once the ReAct agent has answered.
research_success_delta(plan, results, iterations, max_iterations, new_results) ==
    LET all == all_results(results, new_results)
        should_continue == _should_continue_research(iterations, max_iterations, plan, all)
    IN  [path |-> "success", new_results |-> new_results,
         messages |->
             IF should_continue
             THEN <<AIMessage(<<"Research iteration completed">>, "researcher")>>
             ELSE <<AIMessage(<<"Research iteration completed">>, "researcher"),
                    AIMessage(<<"Research phase completed">>, "researcher")>>,
         has_results |-> TRUE, research_results |-> all,
         research_iterations |-> iterations + 1,
         current_agent |-> IF should_continue THEN "researcher" ELSE "writer"]

\* The collaborators called, and raising, ahead of the iteration limit check.
call_research_agent_raise_before_limit(plan, results, iterations, max_iterations, outcome) ==
    IF plan = NoPlan THEN research_error_delta(results, iterations)
    ELSE IF outcome.kind = "raise" THEN research_error_delta(results, iterations)
    ELSE IF iterations >= max_iterations THEN research_limit_delta(iterations)
    ELSE research_success_delta(plan, results, iterations, max_iterations,
                                Sourced(NewResults(iterations, outcome.n),
                                        outcome.sources))

call_research_agent(plan, results, iterations, max_iterations, outcome) ==
    IF plan = NoPlan THEN research_error_delta(results, iterations)
    ELSE IF iterations >= max_iterations THEN research_limit_delta(iterations)
    ELSE IF outcome.kind = "raise" THEN research_error_delta(results, iterations)
    ELSE research_success_delta(plan, results, iterations, max_iterations,
                                Sourced(NewResults(iterations, outcome.n),
                                        outcome.sources))

(* ------------------------- tool-result payloads ------------------------ *)

\* A text is what it says and how many characters it has; text[:n] keeps the
\* first n of them.
Text(id, len) == [text |-> id, len |-> len]
Cut(t, n) == IF t.len > n THEN Text(t.text, n) ELSE t

ContentCap == 2000

\* JSON values as json.loads returns them: a key that is absent, None, a
\* str (a Text where its length matters), a number (scores are kept in tenths: 8 is 0.8), a dict with the
\* three keys the code reads, a list known by its first element.
Absent == [json |-> "absent"]
Null == [json |-> "null"]
Str(t) == [json |-> "string", value |-> t]
Num(x) == [json |-> "number", value |-> x]
Object(content, url, score) ==
    [json |-> "object", content |-> content, url |-> url, score |-> score]
Array(first) == [json |-> "array", first |-> first]
EmptyArray == [json |-> "array", first |-> Absent]

ContentValues ==
    {Absent, Null, Str(Text("X", 1)), Str(Text("X", ContentCap)),
     Str(Text("X", ContentCap + 1))}
UrlValues == {Absent, Null, Str("http://a")}
ScoreValues == {Absent, Null, Num(0), Num(9), Num(15)}
Objects ==
    {Object(c, u, sc) : c \in ContentValues, u \in UrlValues, sc \in ScoreValues}

\* The text of a JSON value is longer than the content string inside it.
RawFits(d, n) ==
    LET o == IF d.json = "array" THEN d.first ELSE d
    IN  o.json = "object" /\ o.content.json = "string" => o.content.value.len < n

\* What a tool message may carry: text that is not JSON, or the text of a
\* JSON value.  decoded is what json.loads makes of it ("invalid" when it
\* raises JSONDecodeError), raw the text itself.
Payloads ==
    {[decoded |-> [json |-> "invalid"], raw |-> Text("raw", n)] : n \in {50, ContentCap + 500}}
    \cup {p \in {[decoded |-> d, raw |-> Text("raw", n)] :
                    d \in {Null, Num(1), Str(Text("X", 1)), EmptyArray,
                           Array(Str(Text("X", 1)))}
                          \cup Objects \cup {Array(o) : o \in Objects},
                    n \in {50, ContentCap + 500}} :
             RawFits(p.decoded, p.raw.len)}

\* ResearchResult(query=..., content=..., source=..., relevance_score=...)
ResearchResult(query, content, source, relevance_score) ==
    [query |-> query, content |-> content, source |-> source,
     relevance_score |-> relevance_score]

\* The except branch of _create_research_result.
ResearchAgentResult(query) ==
    ResearchResult(query, Text("Research result for: query", 21 + query.len),
                   "Research agent", 5)

\* ResearchResult(...) built from a decoded dict: data.get(key, default) for
\* the three keys.  Slicing None raises TypeError and a None source or
\* score fails the model's validation; both end in the except branch.
result_from_dict(query, data, raw, default_source) ==
    LET content == IF data.content = Absent THEN Str(raw) ELSE data.content
        well_typed == /\ content.json = "string"
                      /\ data.url.json \in {"absent", "string"}
                      /\ data.score.json \in {"absent", "number"}
    IN  IF ~well_typed THEN ResearchAgentResult(query)
        ELSE ResearchResult(query, Cut(content.value, ContentCap),
                            IF data.url = Absent THEN default_source
                            ELSE data.url.value,
                            IF data.score = Absent THEN 8 ELSE data.score.value)

\* A plausible slip: the default source of the fallback used for a dict too.
_create_research_result_one_default(query, payload) ==
    LET data == payload.decoded
    IN  IF data.json = "array" /\ data.first # Absent
        THEN IF data.first.json = "object"
             THEN result_from_dict(query, data.first, payload.raw, "Web search result")
             ELSE ResearchAgentResult(query)
        ELSE IF data.json = "object"
        THEN result_from_dict(query, data, payload.raw, "Web search result")
        ELSE ResearchResult(query, Cut(payload.raw, ContentCap), "Web search result", 8)

\* _create_research_result(query, content), content being a str.
_create_research_result(query, payload) ==
    LET data == payload.decoded
    IN  IF data.json = "array" /\ data.first # Absent
        THEN IF data.first.json = "object"
             THEN result_from_dict(query, data.first, payload.raw, "Unknown source")
             ELSE ResearchAgentResult(query)
        ELSE IF data.json = "object"
        THEN result_from_dict(query, data, payload.raw, "Unknown source")
        ELSE ResearchResult(query, Cut(payload.raw, ContentCap), "Web search result", 8)

(* ------------------------ the agent's transcript ------------------------ *)

MaxTranscript == 3

\* A tool call as the AI message carries it: a dict with name, args and id.
ToolCall(name, args, id) == [name |-> name, args |-> args, id |-> id]
Args(query) == [json |-> "object", query |-> query]

\* A message of the transcript: its tool_calls (none where the attribute is
\* missing or empty), its tool_call_id ("None" where it has none), its
\* content, whether 'tavily_search' is in str(content), and, for a tool
\* message, what the content decodes to.
Message(type, tool_calls, tool_call_id, content, mentions_search, decoded) ==
    [type |-> type, tool_calls |-> tool_calls, tool_call_id |-> tool_call_id,
     content |-> content, mentions_search |-> mentions_search, decoded |-> decoded]

\* The instructions of _create_research_instructions, which name the
\* tavily_search tool (researcher.py:169) and are longer than 100 characters.
InstructionsMessage ==
    Message("human", <<>>, "None", Text("instructions", 600), TRUE, Absent)

SearchCall(id) == ToolCall("tavily_search", Args(Str(Text("query", 5))), id)

AIMessages ==
    {Message("ai", calls, "None", Text("ai text", n), m, Absent) :
        calls \in {<<>>, <<SearchCall("c1")>>, <<SearchCall("c2")>>},
        n \in {40}, m \in {FALSE}}
    \cup {Message("ai", calls, "None", Text("ai text", n), TRUE, Absent) :
             calls \in {<<>>, <<SearchCall("c1")>>}, n \in {40, ContentCap + 500}}
    \cup {Message("ai", <<ToolCall("tavily_search", a, "c1")>>, "None",
                  Text("ai text", 40), FALSE, Absent) :
             a \in {Null, Args(Absent), Args(Str(Text("", 0))),
                    Args(Str(Text("query", ContentCap)))}}
    \cup {Message("ai", <<ToolCall("other_tool", Args(Absent), "c1")>>, "None",
                  Text("ai text", 40), FALSE, Absent)}

ToolPayloads ==
    {p \in Payloads :
        \/ p.decoded.json = "invalid"
        \/ p = [decoded |-> Object(Str(Text("X", 1)), Str("http://a"), Num(9)),
                raw |-> Text("raw", 50)]
        \/ p = [decoded |-> Object(Str(Text("X", ContentCap + 1)), Absent, Num(15)),
                raw |-> Text("raw", ContentCap + 500)]
        \/ p = [decoded |-> Array(Str(Text("X", 1))), raw |-> Text("raw", 50)]}

ToolMessages ==
    {Message("tool", <<>>, "c1", p.raw, FALSE, p.decoded) : p \in ToolPayloads}
    \cup {Message("tool", <<>>, "c1", Text("", 0), FALSE, [json |-> "invalid"])}

TranscriptMessages == {InstructionsMessage} \cup AIMessages \cup ToolMessages

\* response["messages"]: what the ReAct agent returns.
Transcripts ==
    UNION {[1..n -> TranscriptMessages] : n \in 0..MaxTranscript}

\* _find_tool_result: str(content) of the first message with that
\* tool_call_id, "" when there is none.
RECURSIVE _find_tool_result(_, _)
_find_tool_result(msgs, tool_call_id) ==
    IF msgs = <<>> THEN [raw |-> Text("", 0), decoded |-> [json |-> "invalid"]]
    ELSE IF Head(msgs).tool_call_id = tool_call_id
         THEN [raw |-> Head(msgs).content, decoded |-> Head(msgs).decoded]
    ELSE _find_tool_result(Tail(msgs), tool_call_id)

\* _extract_from_content: one result from a content of more than 100
\* characters.
_extract_from_content(content, main_topic) ==
    IF content.len > 100
    THEN <<ResearchResult(Text("Research on main_topic", 12 + main_topic.len),
                          Cut(content, ContentCap), "Research agent analysis", 7)>>
    ELSE <<>>

\* The body of "for tool_call in message.tool_calls": the results it
\* appends, and whether it raised (args that is None has no .get).
RECURSIVE tool_call_results(_, _)
tool_call_results(msgs, tool_calls) ==
    IF tool_calls = <<>> THEN [raised |-> FALSE, results |-> <<>>]
    ELSE LET tool_call == Head(tool_calls)
             rest == tool_call_results(msgs, Tail(tool_calls))
             found == _find_tool_result(msgs, tool_call.id)
             mine ==
                 IF tool_call.name # "tavily_search" THEN <<>>
                 ELSE IF tool_call.args.query.json # "string" THEN <<>>
                 ELSE IF tool_call.args.query.value.len = 0 THEN <<>>
                 ELSE IF found.raw.len = 0 THEN <<>>
                 ELSE <<_create_research_result(tool_call.args.query.value, found)>>
         IN  IF tool_call.name = "tavily_search" /\ tool_call.args = Null
             THEN [raised |-> TRUE, results |-> <<>>]
             ELSE [raised |-> rest.raised, results |-> mine \o rest.results]

\* The body of "for message in messages", from message i on.
RECURSIVE message_results(_, _, _)
message_results(msgs, i, main_topic) ==
    IF i > Len(msgs) THEN [raised |-> FALSE, results |-> <<>>]
    ELSE LET message == msgs[i]
             calls == tool_call_results(msgs, message.tool_calls)
             from_content == IF message.mentions_search
                             THEN _extract_from_content(message.content, main_topic)
                             ELSE <<>>
             rest == message_results(msgs, i + 1, main_topic)
         IN  IF calls.raised THEN calls
             ELSE [raised |-> rest.raised,
                   results |-> calls.results \o from_content \o rest.results]

FallbackContentCap == 1000

\* _extract_research_results_from_response: the results of the loop and,
\* when the loop raised, one more made from the last message.
_extract_research_results_from_response(msgs, main_topic) ==
    LET r == message_results(msgs, 1, main_topic)
    IN  IF r.raised
        THEN r.results \o <<ResearchResult(Text("Research on main_topic", 12 + main_topic.len),
                                           Cut(msgs[Len(msgs)].content, FallbackContentCap),
                                           "Generated from research agent", 8)>>
        ELSE r.results

(* ------------------------------ router -------------------------------- *)

\* A plausible slip: the router without its iteration limit.
_should_continue_research_decision_no_limit ==
    IF research_plan = NoPlan THEN "write"
    ELSE IF Len(research_results) < Len(research_plan.subtopics) * 2 THEN "continue"
    ELSE IF current_agent = "writer" THEN "write"
    ELSE "continue"

\* graph.py:157-193, on the state's field values.
_should_continue_research_decision ==
    IF research_iterations >= max_research_iterations THEN "write"
    ELSE IF research_plan = NoPlan THEN "write"
    ELSE IF Len(research_results) < Len(research_plan.subtopics) * 2 THEN "continue"
    ELSE IF current_agent = "writer" THEN "write"
    ELSE "continue"

(* ----------------------------- Write Stage ---------------------------- *)

\* What the writer's collaborators may do: raise (model, prompt loading), or
\* answer with a report text that has, or has not, the substring "sources:"
\* in its lower-cased form.
WriterOutcomes == {"ok", "ok_sources", "raise"}

\* A report is the sequence of its blocks; a block is its heading (for a
\* line of the source appendix, the source), the number n it prints (a count
\* of results, or the line's number) and the iteration count k it prints (0
\* where there is none).
Block(heading, n, k) == [block |-> heading, n |-> n, k |-> k]

\* response.content of the writer's model call.
ModelReport(outcome) ==
    [mentions_sources |-> (outcome = "ok_sources"),
     blocks |-> <<Block(IF outcome = "ok_sources" THEN "model text with sources:"
                        ELSE "model text", 0, 0)>>]

\* The loop of the source appendix from result i on: a line "i. source"
\* for each source not seen before that is not "Unknown source".
RECURSIVE source_lines(_, _, _)
source_lines(results, i, unique_sources) ==
    IF i > Len(results) THEN <<>>
    ELSE IF results[i].source \notin unique_sources /\ results[i].source # "Unknown source"
         THEN <<Block(results[i].source, i, 0)>>
                  \o source_lines(results, i + 1, unique_sources \cup {results[i].source})
    ELSE source_lines(results, i + 1, unique_sources)

\* A plausible slip: the source appendix written whether or not there are
\* results.
_enhance_report_formatting_always_sources(report, plan, results, iterations) ==
    <<Block("**Sources Consulted:**", Len(results), iterations)>>
        \o report.blocks \o <<Block("## Sources", 0, 0)>>
        \o source_lines(results, 1, {})

\* A plausible slip: a line for every result, seen before or not.
_enhance_report_formatting_every_result(report, plan, results, iterations) ==
    LET metadata == <<Block("**Sources Consulted:**", Len(results), iterations)>>
        sources_section ==
            <<Block("## Sources", 0, 0)>>
                \o [i \in 1..Len(results) |-> Block(results[i].source, i, 0)]
    IN  IF results # <<>> /\ ~report.mentions_sources
        THEN metadata \o report.blocks \o sources_section
        ELSE metadata \o report.blocks

\* _enhance_report_formatting: the metadata header, the model's text and,
\* when there are results and the text has no "sources:", the appendix:
\* its heading and its lines.
_enhance_report_formatting(report, plan, results, iterations) ==
    LET metadata == <<Block("**Sources Consulted:**", Len(results), iterations)>>
        sources_section == <<Block("## Sources", 0, 0)>> \o source_lines(results, 1, {})
    IN  IF results # <<>> /\ ~report.mentions_sources
        THEN metadata \o report.blocks \o sources_section
        ELSE metadata \o report.blocks

\* _create_fallback_report: title and summary, the plan when there is one,
\* the findings summary when there are results, the closing note.
_create_fallback_report(msgs, plan, results, iterations) ==
    <<Block("# Research Report - Summary", 0, 0)>>
        \o (IF plan # NoPlan
            THEN <<Block("## Research Plan", 0, 0)>> ELSE <<>>)
        \o (IF results # <<>>
            THEN <<Block("**Total Sources Consulted:**", Len(results), iterations)>>
            ELSE <<>>)
        \o <<Block("## Note", 0, 0)>>

\* The report states n as the number of sources consulted.
StatesSourceCount(report, n) ==
    \E i \in 1..Len(report) :
        /\ report[i].block \in {"**Sources Consulted:**", "**Total Sources Consulted:**"}
        /\ report[i].n = n

\* The report has the source appendix.
HasSourcesSection(report) == \E i \in 1..Len(report) : report[i].block = "## Sources"

\* A plausible slip in the except branch: the error message alone, without
\* the fallback report.
call_writer_agent_no_fallback_report(msgs, plan, results, iterations, outcome) ==
    IF user_messages(msgs) = <<>> \/ plan = NoPlan \/ outcome = "raise"
    THEN [path |-> "exception",
          messages |-> <<AIMessage(<<"Report generation encountered an error">>, "writer")>>,
          final_report |-> NoReport,
          current_agent |-> "completed"]
    ELSE [path |-> "success",
          messages |-> <<AIMessage(<<"Research report completed">>, "writer")>>,
          final_report |-> [by |-> "_enhance_report_formatting",
                            blocks |-> _enhance_report_formatting(
                                ModelReport(outcome), plan, results, iterations)],
          current_agent |-> "completed"]

\* The delta call_writer_agent returns.  The report is kept as the function
\* that built it and the blocks it is made of.
call_writer_agent(msgs, plan, results, iterations, outcome) ==
    IF user_messages(msgs) = <<>> \/ plan = NoPlan \/ outcome = "raise"
    THEN [path |-> "exception",
          messages |-> <<AIMessage(<<"Report generation encountered an error">>, "writer")>>,
          final_report |-> [by |-> "_create_fallback_report",
                            blocks |-> _create_fallback_report(msgs, plan, results,
                                                               iterations)],
          current_agent |-> "completed"]
    ELSE [path |-> "success",
          messages |-> <<AIMessage(<<"Research report completed">>, "writer")>>,
          final_report |-> [by |-> "_enhance_report_formatting",
                            blocks |-> _enhance_report_formatting(
                                ModelReport(outcome), plan, results, iterations)],
          current_agent |-> "completed"]

(* --------------------------- the controller --------------------------- *)

\* What a workflow run does not touch: the factory call that built the graph
\* and the researcher's payload parsing, which are followed on their own.
aside == <<factory, extraction, two, focus>>

\* No cancellation asked for; no factory call; no payload looked at.
NoCancel == [requested |-> FALSE, at_invocations |-> 0, at_iterations |-> 0]
NoFactory == [pc |-> "None"]
NoExtraction == [pc |-> "None"]
NoTwo == [graph |-> "None"]
NoFocus == [pc |-> "None"]

NoInvocation ==
    [node |-> "None", path |-> "None", in_iterations |-> 0, in_results |-> <<>>,
     new_results |-> <<>>, decision |-> "None"]

\* The state a run starts from: the defaults of state.py:37-48, the
\* caller's messages and iteration budget.
Init ==
    /\ graph \in {"linear", "looped"}
    /\ state_format \in {"dict", "object"}
    /\ pc = "planner"
    /\ messages \in InitMessages
    /\ research_plan = NoPlan
    /\ research_results = <<>>
    /\ research_iterations = 0
    /\ max_research_iterations \in 0..MaxBudget
    /\ final_report = NoReport
    /\ current_agent = "planner"
    /\ scan = NoScan
    /\ last = NoInvocation
    /\ stage_invocations = 0
    /\ invoked = <<>>
    /\ cancel = NoCancel
    /\ factory = NoFactory
    /\ focus = NoFocus
    /\ extraction = NoExtraction
    /\ two = NoTwo

\* START -> planner -> researcher (graph.py:47-48, 112-113).
PlannerNode ==
    /\ pc = "planner"
    /\ \E outcome \in PlannerOutcomes :
          LET delta == call_planner_agent(messages, outcome)
          IN  /\ messages' = messages \o delta.messages
              /\ research_plan' = delta.research_plan
              /\ current_agent' = delta.current_agent
              /\ last' = [NoInvocation EXCEPT !.node = "planner", !.path = delta.path]
    /\ pc' = "researcher"
    /\ stage_invocations' = stage_invocations + 1
    /\ invoked' = Append(invoked, "planner")
    /\ UNCHANGED <<graph, state_format, research_results, research_iterations,
                   max_research_iterations, final_report, scan,
                   cancel, aside>>

\* The researcher node; then the edge to the writer (graph.py:49) or the
\* conditional edges (graph.py:116-123).
ResearcherNode ==
    /\ pc = "researcher"
    /\ \E outcome \in ResearchOutcomes :
          LET delta == call_research_agent(research_plan, research_results,
                           research_iterations, max_research_iterations, outcome)
          IN  /\ messages' = messages \o delta.messages
              /\ research_results' =
                    IF delta.has_results THEN delta.research_results
                    ELSE research_results
              /\ research_iterations' = delta.research_iterations
              /\ current_agent' = delta.current_agent
              /\ last' = [node |-> "researcher", path |-> delta.path,
                          in_iterations |-> research_iterations,
                          in_results |-> research_results,
                          new_results |-> delta.new_results,
                          decision |-> "None"]
    /\ pc' = IF graph = "looped" THEN "router" ELSE "writer"
    /\ stage_invocations' = stage_invocations + 1
    /\ invoked' = Append(invoked, "researcher")
    /\ UNCHANGED <<graph, state_format, research_plan, max_research_iterations,
                   final_report, scan,
                   cancel, aside>>

\* A plausible slip in the edge map: "write" mapped to END, not to the writer.
RouterEdge_write_to_END ==
    /\ pc = "router"
    /\ IF state_format = "dict"
       THEN /\ pc' = "raised"
            /\ last' = [last EXCEPT !.decision = "AttributeError"]
       ELSE /\ pc' = IF _should_continue_research_decision = "continue"
                     THEN "researcher" ELSE "END"
            /\ last' = [last EXCEPT !.decision = _should_continue_research_decision]
    /\ UNCHANGED <<graph, state_format, messages, research_plan, research_results,
                   research_iterations, max_research_iterations, final_report,
                   current_agent, scan, stage_invocations,
                   invoked, cancel, aside>>

\* The conditional edge calls _should_continue_research_decision(state).
\* The function reads state.research_iterations and the other fields as
\* attributes: handed a dict it raises AttributeError, which nothing
\* between it and the caller of the run catches.
RouterEdge ==
    /\ pc = "router"
    /\ IF state_format = "dict"
       THEN /\ pc' = "raised"
            /\ last' = [last EXCEPT !.decision = "AttributeError"]
       ELSE /\ pc' = IF _should_continue_research_decision = "continue"
                     THEN "researcher" ELSE "writer"
            /\ last' = [last EXCEPT !.decision = _should_continue_research_decision]
    /\ UNCHANGED <<graph, state_format, messages, research_plan, research_results,
                   research_iterations, max_research_iterations, final_report,
                   current_agent, scan, stage_invocations,
                   invoked, cancel, aside>>

\* The writer node, then writer -> END (graph.py:50, 125).
WriterNode ==
    /\ pc = "writer"
    /\ \E outcome \in WriterOutcomes :
          LET delta == call_writer_agent(messages, research_plan, research_results,
                                         research_iterations, outcome)
          IN  /\ messages' = messages \o delta.messages
              /\ final_report' = delta.final_report
              /\ current_agent' = delta.current_agent
              /\ last' = [NoInvocation EXCEPT !.node = "writer", !.path = delta.path]
    /\ pc' = "END"
    /\ stage_invocations' = stage_invocations + 1
    /\ invoked' = Append(invoked, "writer")
    /\ UNCHANGED <<graph, state_format, research_plan, research_results,
                   research_iterations, max_research_iterations, scan,
                   cancel, aside>>

\* The caller asks for the run to be cancelled, at any point before END.  A
\* request made while a stage is in flight is one made before that stage's
\* step here.  Nothing in the factories or the nodes reads a request: the
\* compiled graph has the nodes and edges of graph.py:102-125 and no more.
RequestCancel ==
    /\ pc \in {"planner", "researcher", "router", "writer"}
    /\ ~cancel.requested
    /\ cancel' = [requested |-> TRUE, at_invocations |-> stage_invocations,
                  at_iterations |-> research_iterations]
    /\ UNCHANGED <<graph, state_format, pc, messages, research_plan, research_results,
                   research_iterations, max_research_iterations, final_report,
                   current_agent, scan, last, stage_invocations, invoked, aside>>

Next == PlannerNode \/ ResearcherNode \/ RouterEdge \/ WriterNode \/ RequestCancel

Spec == Init /\ [][Next]_vars

(* ------------------- the Plan Stage, line by line --------------------- *)

\* The lines an answer of the planner's model is made of.
SubtopicInline == <<"Subtopic", ":", " ", "abcde">>
PlanLines == {SubHeader, QHeader, OtherHeader, TopicLine, SubtopicInline, ShortItem,
              MidItem, LongItem, TenthItem, LongQuestion, BlankLine}

InitPlanner ==
    /\ graph = "linear"
    /\ state_format = "object"
    /\ pc = "planner"
    /\ messages \in InitMessages
    /\ research_plan = NoPlan
    /\ research_results = <<>>
    /\ research_iterations = 0
    /\ max_research_iterations = MaxBudget
    /\ final_report = NoReport
    /\ current_agent = "planner"
    /\ scan = NoScan
    /\ last = NoInvocation
    /\ stage_invocations = 0
    /\ invoked = <<>>
    /\ cancel = NoCancel
    /\ factory = NoFactory
    /\ focus = NoFocus
    /\ extraction = NoExtraction
    /\ two = NoTwo

\* The extractors' loops take the next lines of the answer: one line, or a
\* run of MaxRepeat equal lines.
PlannerScanLine ==
    /\ pc = "planner"
    /\ user_messages(messages) # <<>>
    /\ scan.segments < MaxSegments
    /\ \E line \in PlanLines, n \in {1, MaxRepeat} :
          scan' = [ScanLinesOf(scan, line, n) EXCEPT !.segments = @ + 1]
    /\ UNCHANGED <<graph, state_format, pc, messages, research_plan, research_results,
                   research_iterations, max_research_iterations, final_report,
                   current_agent, last, stage_invocations,
                   invoked, cancel, aside>>

\* call_planner_agent returns: the answer ended, or a collaborator raised
\* or answered with content blocks before any line was looked at.
PlannerReturn ==
    /\ pc = "planner"
    /\ \E outcome \in {[kind |-> "text", scan |-> scan]}
                       \cup (IF scan = NoScan
                             THEN {[kind |-> "raise", scan |-> NoScan],
                                   [kind |-> "blocks", scan |-> NoScan]}
                             ELSE {}) :
          LET delta == call_planner_agent(messages, outcome)
          IN  /\ messages' = messages \o delta.messages
              /\ research_plan' = delta.research_plan
              /\ current_agent' = delta.current_agent
              /\ last' = [NoInvocation EXCEPT !.node = "planner", !.path = delta.path]
    /\ pc' = "researcher"
    /\ stage_invocations' = stage_invocations + 1
    /\ invoked' = Append(invoked, "planner")
    /\ UNCHANGED <<graph, state_format, research_results, research_iterations,
                   max_research_iterations, final_report, scan,
                   cancel, aside>>

NextPlanner == PlannerScanLine \/ PlannerReturn

SpecPlanner == InitPlanner /\ [][NextPlanner]_vars

(* ------------------- the payload parser, on its inputs ------------------ *)

\* No workflow run is going on: the state fields are at their defaults and
\* the controller is nowhere.
NoRun ==
    /\ graph = "linear"
    /\ state_format = "object"
    /\ pc = "None"
    /\ messages = <<>>
    /\ research_plan = NoPlan
    /\ research_results = <<>>
    /\ research_iterations = 0
    /\ max_research_iterations = 5
    /\ final_report = NoReport
    /\ current_agent = "planner"
    /\ scan = NoScan
    /\ last = NoInvocation
    /\ stage_invocations = 0
    /\ invoked = <<>>
    /\ cancel = NoCancel

run == <<graph, state_format, pc, messages, research_plan, research_results,
         research_iterations, max_research_iterations, final_report,
         current_agent, scan, last, stage_invocations, invoked, cancel>>

\* A tool call's query and the payload _find_tool_result found for it.
InitPayload ==
    /\ NoRun
    /\ factory = NoFactory
    /\ focus = NoFocus
    /\ two = NoTwo
    /\ extraction \in {[pc |-> "payload", query |-> Text("query", 5), payload |-> p,
                         result |-> Absent] : p \in Payloads}

\* results.append(_create_research_result(query, result_content))
CreateResearchResult ==
    /\ extraction.pc = "payload"
    /\ extraction' = [extraction EXCEPT
                         !.pc = "result",
                         !.result = _create_research_result(extraction.query,
                                                            extraction.payload)]
    /\ UNCHANGED <<run, factory, two, focus>>

NextPayload == CreateResearchResult

SpecPayload == InitPayload /\ [][NextPayload]_vars

(* ------------------ graph factories and the checkpointer ---------------- *)

\* The three factories that take a config (graph.py:21, graph.py:83,
\* chat_basic/agent.py:16) and the ways they are called: directly, with no
\* config, with a config that is a dict (what RunnableConfig(...) builds) or
\* an object with attributes, holding a checkpointer or not; or from
\* create_research_graph_with_persistence.
Factories == {"create_research_multi_agent_graph",
              "create_research_multi_agent_graph_with_loops",
              "create_chat_basic_graph"}
Configs ==
    {[format |-> "None", checkpointer |-> "None"]}
    \cup {[format |-> f, checkpointer |-> c] : f \in {"dict", "object"},
                                               c \in {"None", "checkpointer"}}

\* A direct call of a factory; the caller's checkpointer, if any, is open.
DirectCalls ==
    {[pc |-> "read_config", caller |-> "direct", name |-> n, config |-> c,
      has_setup |-> h, setup_raises |-> r, compile_raises |-> x,
      checkpointer |-> "None", compiled_with |-> "not compiled",
      setup_calls |-> 0, setup_failed |-> FALSE,
      open |-> (c.checkpointer # "None"), database_url |-> TRUE] :
        n \in Factories, c \in Configs, h \in BOOLEAN, r \in BOOLEAN,
        x \in BOOLEAN}

\* A call of create_research_graph_with_persistence, DATABASE_URL being
\* configured or not.
PersistenceCalls ==
    {[pc |-> "enter_checkpointer", caller |-> "create_research_graph_with_persistence",
      name |-> "create_research_multi_agent_graph",
      config |-> [format |-> "None", checkpointer |-> "None"],
      has_setup |-> TRUE, setup_raises |-> r, compile_raises |-> x,
      checkpointer |-> "None", compiled_with |-> "not compiled",
      setup_calls |-> 0, setup_failed |-> FALSE, open |-> FALSE,
      database_url |-> u] : r \in BOOLEAN, x \in BOOLEAN, u \in BOOLEAN}

\* getattr(config, 'checkpointer', None) if config else None: a key of a
\* dict is not an attribute of it.
config_checkpointer(config) ==
    IF config.format = "object" THEN config.checkpointer ELSE "None"

InitFactory ==
    /\ NoRun
    /\ extraction = NoExtraction
    /\ focus = NoFocus
    /\ two = NoTwo
    /\ factory \in DirectCalls \cup PersistenceCalls

\* async with get_postgres_checkpointer() as checkpointer: the connection is
\* opened, setup() is awaited (its failure printed), and the config is
\* built with RunnableConfig(checkpointer=..., interrupt_before=...).
EnterCheckpointer ==
    /\ factory.pc = "enter_checkpointer"
    /\ factory' = IF ~factory.database_url
                  THEN [factory EXCEPT !.pc = "raised"]
                  ELSE [factory EXCEPT !.pc = "read_config",
                                       !.open = TRUE,
                                       !.setup_calls = @ + 1,
                                       !.setup_failed = factory.setup_raises,
                                       !.config = [format |-> "dict",
                                                   checkpointer |-> "checkpointer"]]
    /\ UNCHANGED <<run, extraction, two, focus>>

\* The first statement of the factory.
ReadConfig ==
    /\ factory.pc = "read_config"
    /\ factory' = [factory EXCEPT !.pc = "compile",
                                  !.checkpointer = config_checkpointer(factory.config)]
    /\ UNCHANGED <<run, extraction, two, focus>>

\* builder.compile(checkpointer=checkpointer, ...), create_react_agent(...,
\* checkpointer=checkpointer); an exception is logged and raised again,
\* and leaves the async with of the caller, if there is one.
Compile ==
    /\ factory.pc = "compile"
    /\ factory' = IF factory.compile_raises
                  THEN [factory EXCEPT
                          !.pc = "raised",
                          !.open = IF factory.caller = "direct" THEN @ ELSE FALSE]
                  ELSE [factory EXCEPT !.pc = "setup",
                                       !.compiled_with = factory.checkpointer]
    /\ UNCHANGED <<run, extraction, two, focus>>

\* if checkpointer is not None: try: if hasattr(checkpointer, 'setup'):
\* await checkpointer.setup() except Exception: log.
SetupCheckpointer ==
    /\ factory.pc = "setup"
    /\ factory' = IF factory.checkpointer # "None" /\ factory.has_setup
                  THEN [factory EXCEPT !.pc = "return",
                                       !.setup_calls = @ + 1,
                                       !.setup_failed = factory.setup_raises]
                  ELSE [factory EXCEPT !.pc = "return"]
    /\ UNCHANGED <<run, extraction, two, focus>>

\* return graph.  In create_research_graph_with_persistence the return is
\* inside the async with, whose exit closes the connection before the
\* caller has the graph.
ReturnGraph ==
    /\ factory.pc = "return"
    /\ factory' = IF factory.caller = "create_research_graph_with_persistence"
                  THEN [factory EXCEPT !.pc = "returned", !.open = FALSE]
                  ELSE [factory EXCEPT !.pc = "returned"]
    /\ UNCHANGED <<run, extraction, two, focus>>

NextFactory ==
    EnterCheckpointer \/ ReadConfig \/ Compile \/ SetupCheckpointer \/ ReturnGraph

SpecFactory == InitFactory /\ [][NextFactory]_vars

(* ------------------ the result extraction, on its inputs ---------------- *)

\* The ReAct agent has answered with a transcript.
InitTranscript ==
    /\ NoRun
    /\ factory = NoFactory
    /\ focus = NoFocus
    /\ two = NoTwo
    /\ extraction \in {[pc |-> "response", messages |-> t, results |-> <<>>] :
                         t \in Transcripts}

\* new_results = _extract_research_results_from_response(research_response,
\* research_plan.main_topic)
ExtractResults ==
    /\ extraction.pc = "response"
    /\ extraction' = [extraction EXCEPT
                         !.pc = "new_results",
                         !.results = _extract_research_results_from_response(
                                         extraction.messages, Text("main topic", 10))]
    /\ UNCHANGED <<run, factory, two, focus>>

NextTranscript == ExtractResults

SpecTranscript == InitTranscript /\ [][NextTranscript]_vars

(* --------------------- two runs and their list objects ------------------ *)

MaxBudgetTwo == 2
MaxNewTwo == 1

\* The list objects in memory, by their place in heap: the state of a run
\* holds a list by reference.  The first is the default of state.py:40,
\* which both runs start from.
DefaultList == 1

\* A run of its own: the state fields, the controller's place, and (history)
\* the results this run's own Research calls have produced.
NewRun(m) ==
    [pc |-> "planner", messages |-> <<HumanMessage(<<"q1">>)>>,
     research_plan |-> NoPlan, research_results |-> DefaultList,
     research_iterations |-> 0, max_research_iterations |-> m,
     final_report |-> NoReport, current_agent |-> "planner", own |-> <<>>]

\* The results of run r's Research call, marked as that run's.
OwnResults(r, new_results) ==
    [i \in 1..Len(new_results) |->
        [run |-> r, iteration |-> new_results[i].iteration,
         index |-> new_results[i].index, source |-> new_results[i].source]]

\* A plausible slip: the new results added to the list the state holds,
\* research_results.extend(new_results).
store_all_results_in_place(heap, ref, new_results) ==
    [heap |-> [heap EXCEPT ![ref] = all_results(heap[ref], new_results)],
     ref |-> ref]

\* researcher.py:87: list(research_results) + new_results is a new list; the
\* list the state held is left as it was.
store_all_results(heap, ref, new_results) ==
    [heap |-> Append(heap, all_results(heap[ref], new_results)),
     ref |-> Len(heap) + 1]

\* graph.py:157-193 on the fields of one run.
decision_on(r) ==
    IF r.research_iterations >= r.max_research_iterations THEN "write"
    ELSE IF r.research_plan = NoPlan THEN "write"
    ELSE IF Len(two.heap[r.research_results]) < Len(r.research_plan.subtopics) * 2
         THEN "continue"
    ELSE IF r.current_agent = "writer" THEN "write"
    ELSE "continue"

InitTwo ==
    /\ NoRun
    /\ factory = NoFactory
    /\ focus = NoFocus
    /\ extraction = NoExtraction
    /\ two \in {[graph |-> g, heap |-> << <<>> >>,
                  runs |-> [r \in {1, 2} |-> NewRun(IF r = 1 THEN m1 ELSE m2)]] :
                    g \in {"linear", "looped"},
                    m1 \in 0..MaxBudgetTwo, m2 \in 0..MaxBudgetTwo}

\* The planner node of run r.
TwoPlanner(r) ==
    /\ two.runs[r].pc = "planner"
    /\ \E outcome \in {[kind |-> "raise", scan |-> NoScan],
                        [kind |-> "blocks", scan |-> NoScan]} :
          LET run_r == two.runs[r]
              delta == call_planner_agent(run_r.messages, outcome)
          IN  two' = [two EXCEPT !.runs[r] =
                        [run_r EXCEPT !.pc = "researcher",
                                      !.messages = @ \o delta.messages,
                                      !.research_plan = delta.research_plan,
                                      !.current_agent = delta.current_agent]]
    /\ UNCHANGED <<run, factory, extraction, focus>>

\* The researcher node of run r: the delta's list is a list object of its
\* own on the success path, the list the state held on the except path, and
\* the skip path has no list in its delta.
TwoResearcher(r) ==
    /\ two.runs[r].pc = "researcher"
    /\ \E outcome \in {o \in ResearchOutcomes :
                            o.n <= MaxNewTwo /\ o.sources = "urls"} :
          LET run_r == two.runs[r]
              delta == call_research_agent(run_r.research_plan,
                           two.heap[run_r.research_results],
                           run_r.research_iterations, run_r.max_research_iterations,
                           outcome)
              mine == OwnResults(r, delta.new_results)
              stored == IF delta.path = "success"
                        THEN store_all_results(two.heap, run_r.research_results, mine)
                        ELSE [heap |-> two.heap, ref |-> run_r.research_results]
          IN  two' = [two EXCEPT
                        !.heap = stored.heap,
                        !.runs[r] =
                          [run_r EXCEPT
                             !.pc = IF two.graph = "looped" THEN "router" ELSE "writer",
                             !.messages = @ \o delta.messages,
                             !.research_results = stored.ref,
                             !.research_iterations = delta.research_iterations,
                             !.current_agent = delta.current_agent,
                             !.own = @ \o mine]]
    /\ UNCHANGED <<run, factory, extraction, focus>>

\* The conditional edge of run r (state handed over as an object).
TwoRouter(r) ==
    /\ two.runs[r].pc = "router"
    /\ two' = [two EXCEPT !.runs[r].pc =
                  IF decision_on(two.runs[r]) = "continue" THEN "researcher" ELSE "writer"]
    /\ UNCHANGED <<run, factory, extraction, focus>>

\* The writer node of run r.
TwoWriter(r) ==
    /\ two.runs[r].pc = "writer"
    /\ \E outcome \in WriterOutcomes :
          LET run_r == two.runs[r]
              delta == call_writer_agent(run_r.messages, run_r.research_plan,
                           two.heap[run_r.research_results],
                           run_r.research_iterations, outcome)
          IN  two' = [two EXCEPT !.runs[r] =
                        [run_r EXCEPT !.pc = "END",
                                      !.messages = @ \o delta.messages,
                                      !.final_report = delta.final_report,
                                      !.current_agent = delta.current_agent]]
    /\ UNCHANGED <<run, factory, extraction, focus>>

NextTwo ==
    \E r \in {1, 2} : TwoPlanner(r) \/ TwoResearcher(r) \/ TwoRouter(r) \/ TwoWriter(r)

SpecTwo == InitTwo /\ [][NextTwo]_vars

(* --------------- the researcher node up to its focus slice -------------- *)

\* seq[start:stop] of Python, for 0 <= start: positions counted from 0, the
\* end clipped to the list, empty when start is past the end.
Slice(seq, start, stop) ==
    SubSeq(seq, start + 1, IF stop < Len(seq) THEN stop ELSE Len(seq))

\* max(a, b) of Python.
max(a, b) == IF a >= b THEN a ELSE b

\* What _create_research_instructions has when it builds its text: the two
\* focus lists, whether it divided by max_research_iterations, and whether
\* that division raised ZeroDivisionError.
Instructions(focus_areas, focus_questions, divided, raised) ==
    [focus_areas |-> focus_areas, focus_questions |-> focus_questions,
     divided |-> divided, raised |-> raised]

\* The later-iteration window that starts at iteration * size.
_create_research_instructions_next_window(plan, iterations, max_iterations) ==
    LET iteration == iterations + 1
    IN  IF iteration = 1
        THEN Instructions(
                 IF Len(plan.subtopics) > 3 THEN Slice(plan.subtopics, 0, 3)
                 ELSE plan.subtopics,
                 IF Len(plan.research_questions) > 5
                 THEN Slice(plan.research_questions, 0, 5)
                 ELSE plan.research_questions,
                 FALSE, FALSE)
        ELSE IF max_iterations = 0
        THEN Instructions(<<>>, <<>>, TRUE, TRUE)
        ELSE LET subtopics_per_iteration ==
                     max(2, Len(plan.subtopics) \div max_iterations)
                 questions_per_iteration ==
                     max(3, Len(plan.research_questions) \div max_iterations)
             IN  Instructions(
                     Slice(plan.subtopics, iteration * subtopics_per_iteration,
                           iteration * subtopics_per_iteration
                               + subtopics_per_iteration),
                     Slice(plan.research_questions,
                           iteration * questions_per_iteration,
                           iteration * questions_per_iteration
                               + questions_per_iteration),
                     TRUE, FALSE)

\* _create_research_instructions(state), researcher.py:134-153: the focus
\* areas and questions of iteration state.research_iterations + 1.  The division
\* of researcher.py:147 raises ZeroDivisionError when the budget is 0.
_create_research_instructions(plan, iterations, max_iterations) ==
    LET iteration == iterations + 1
    IN  IF iteration = 1
        THEN Instructions(
                 IF Len(plan.subtopics) > 3 THEN Slice(plan.subtopics, 0, 3)
                 ELSE plan.subtopics,
                 IF Len(plan.research_questions) > 5
                 THEN Slice(plan.research_questions, 0, 5)
                 ELSE plan.research_questions,
                 FALSE, FALSE)
        ELSE IF max_iterations = 0
        THEN Instructions(<<>>, <<>>, TRUE, TRUE)
        ELSE LET subtopics_per_iteration ==
                     max(2, Len(plan.subtopics) \div max_iterations)
                 questions_per_iteration ==
                     max(3, Len(plan.research_questions) \div max_iterations)
             IN  Instructions(
                     Slice(plan.subtopics,
                           (iteration - 1) * subtopics_per_iteration,
                           (iteration - 1) * subtopics_per_iteration
                               + subtopics_per_iteration),
                     Slice(plan.research_questions,
                           (iteration - 1) * questions_per_iteration,
                           (iteration - 1) * questions_per_iteration
                               + questions_per_iteration),
                     TRUE, FALSE)

\* A budget check that never finds the budget used up.
budget_reached_never(iterations, max_iterations) == FALSE

\* if research_iterations >= max_research_iterations (researcher.py:39)
budget_reached(iterations, max_iterations) ==
    iterations >= max_iterations

\* The plans the Plan Stage hands over: 1 to 7 subtopics and 1 to 10
\* questions (planner.py:184-188, 219-223), each item named by its place.
FocusPlans ==
    {ResearchPlan(<<"topic">>, [i \in 1..s |-> i], [i \in 1..q |-> i]) :
        s \in 1..SubtopicCap, q \in 1..QuestionCap}

\* The researcher node is called with a plan, a counter and a budget.
InitFocus ==
    /\ NoRun
    /\ factory = NoFactory
    /\ extraction = NoExtraction
    /\ two = NoTwo
    /\ focus \in {[pc |-> "call", research_plan |-> plan, research_iterations |-> k,
                    max_research_iterations |-> m,
                    instructions |-> Instructions(<<>>, <<>>, FALSE, FALSE)] :
                      plan \in FocusPlans, k \in 0..MaxBudget, m \in 0..MaxBudget}

\* call_research_agent from its budget check to the agent's call
\* (researcher.py:38-81): the early return, or the instructions, or the
\* except branch when making them raised.
CreateInstructions ==
    /\ focus.pc = "call"
    /\ IF budget_reached(focus.research_iterations, focus.max_research_iterations)
       THEN focus' = [focus EXCEPT !.pc = "limit_reached"]
       ELSE LET instructions ==
                    _create_research_instructions(focus.research_plan,
                                                  focus.research_iterations,
                                                  focus.max_research_iterations)
            IN  focus' = [focus EXCEPT
                             !.pc = IF instructions.raised THEN "exception" ELSE "agent",
                             !.instructions = instructions]
    /\ UNCHANGED <<run, factory, extraction, two>>

NextFocus == CreateInstructions

SpecFocus == InitFocus /\ [][NextFocus]_vars

(* ============================== claims ================================ *)

\* How many times a node has been invoked in this run.
Invocations(node) == Len(SelectSeq(invoked, LAMBDA n : n = node))

AfterResearch == last.node = "researcher"
SubtopicCount == IF research_plan = NoPlan THEN 0 ELSE Len(research_plan.subtopics)

\* C1 (as claimed): in both graphs, whatever the collaborators do, no
\* exception reaches the caller of the run, and a run that is at END has
\* current_agent = "completed" and a final_report that is not None.
C1_RunCompletes ==
    /\ pc # "raised"
    /\ pc = "END" => current_agent = "completed" /\ final_report # NoReport

\* C2 (as claimed): a run makes at most max_research_iterations + 2 node
\* invocations, for every max_research_iterations >= 0.
C2_AtMostMaxPlusTwo == stage_invocations <= max_research_iterations + 2

\* C2 (amended): a run makes at most max(max_research_iterations, 1) + 2
\* node invocations: the one Research call every run makes counts even
\* when the budget is 0.
C2_StageBound ==
    stage_invocations <=
        (IF max_research_iterations = 0 THEN 1 ELSE max_research_iterations) + 2

C2_Witness ==
    /\ pc = "END" /\ graph = "looped"
    /\ max_research_iterations >= 3
    /\ stage_invocations = max_research_iterations + 2

\* C3 (as claimed): every Research invocation returns research_iterations
\* equal to its input plus 1, the budget-skip path included.
C3_AlwaysPlusOne == AfterResearch => research_iterations = last.in_iterations + 1

\* C3 (amended): a Research invocation returns research_iterations equal to
\* its input plus 1 on the success and the exception path, and equal to its
\* input on the budget-skip path.
C3_IterationCounter ==
    AfterResearch =>
        research_iterations = last.in_iterations + (IF last.path = "skip" THEN 0 ELSE 1)

C3_Witness ==
    /\ AfterResearch /\ last.path = "exception"
    /\ last.in_iterations = 1 /\ research_iterations = 2

\* C4: after a Research invocation research_results is the list before it
\* followed by the invocation's new results, and there are no new results
\* on the exception and the skip path.
C4_AppendOnly ==
    AfterResearch =>
        /\ research_results = last.in_results \o last.new_results
        /\ last.path \in {"exception", "skip"} => last.new_results = <<>>

C4_Witness ==
    /\ AfterResearch /\ last.path = "success"
    /\ Len(last.in_results) >= 2 /\ Len(last.new_results) >= 2
    /\ Len(research_results) = Len(last.in_results) + Len(last.new_results)

\* C5: once the iteration count, the current call included, has reached
\* max_research_iterations, the stage hands over to the writer and the
\* router's rules decide "write", whatever the result and subtopic counts.
C5_BudgetStops ==
    AfterResearch /\ research_iterations >= max_research_iterations =>
        /\ current_agent = "writer"
        /\ _should_continue_research_decision = "write"

C5_Witness ==
    /\ AfterResearch /\ last.path = "success"
    /\ max_research_iterations = 1 /\ research_iterations = 1
    /\ Len(research_results) < 2 * SubtopicCount

\* C6: while the updated iteration count is below max_research_iterations,
\* a plan is there and fewer than 2 results per subtopic are gathered, the
\* router's rules decide "continue" and so does the stage's policy (which
\* the stage consults on its success path).
C6_ContinueBelowMinimum ==
    /\ AfterResearch
    /\ research_iterations < max_research_iterations
    /\ research_plan # NoPlan
    /\ Len(research_results) < 2 * SubtopicCount
    => /\ _should_continue_research_decision = "continue"
       /\ last.path = "success" => current_agent = "researcher"

C6_Witness ==
    /\ AfterResearch /\ last.path = "success"
    /\ research_iterations < max_research_iterations
    /\ Len(research_results) >= 1
    /\ Len(research_results) < 2 * SubtopicCount
    /\ current_agent = "researcher"

\* C7 (as claimed): in the looped graph, after every Research invocation,
\* the router returns "continue" exactly when the stage set current_agent
\* to "researcher" and "write" exactly when it set it to "writer".
C7_RouterAgrees ==
    pc = "router" /\ state_format = "object" =>
        /\ _should_continue_research_decision = "continue" <=> current_agent = "researcher"
        /\ _should_continue_research_decision = "write" <=> current_agent = "writer"

\* C8 (as claimed): in the looped graph the controller never runs Research
\* again after a Research invocation that ended in its exception path.
C8_NoLoopOnError ==
    ~(/\ pc = "researcher" /\ state_format = "object"
      /\ AfterResearch /\ last.path = "exception")

\* C9 (as claimed): with the updated iteration count below the budget and
\* at least 2 results per subtopic, the stage's policy decides advance.
C9_Rule4NeverContinues ==
    /\ AfterResearch /\ last.path = "success"
    /\ research_iterations < max_research_iterations
    /\ Len(research_results) >= 2 * SubtopicCount
    => current_agent = "writer"

\* C9 (amended): with the updated iteration count k below the budget and
\* r >= 2 * s results, the stage's policy decides advance exactly when
\* k <= r or s = 0; with k > r and s >= 1 the floor division of the fourth
\* rule makes expected_coverage 0 and the policy decides continue.
C9_Rule4 ==
    /\ AfterResearch /\ last.path = "success"
    /\ research_iterations < max_research_iterations
    /\ Len(research_results) >= 2 * SubtopicCount
    => (current_agent = "writer"
           <=> (research_iterations <= Len(research_results) \/ SubtopicCount = 0))

C9_Witness ==
    /\ AfterResearch /\ last.path = "success"
    /\ research_iterations = 2 /\ research_iterations < max_research_iterations
    /\ Len(research_results) >= 2 * SubtopicCount
    /\ current_agent = "writer"

\* C10: once the Plan Stage has returned, on each of its paths, there is a
\* plan with 1 to 7 subtopics and 1 to 10 research questions; when the
\* answer had neither a subtopics nor a questions section each list is the
\* single fallback entry, and the fallback question ends with "?".
C10_PlanShape ==
    last.node = "planner" =>
        /\ research_plan # NoPlan
        /\ Len(research_plan.subtopics) \in 1..7
        /\ Len(research_plan.research_questions) \in 1..10
        /\ last.path = "parsed" /\ ~scan.sub.in_section /\ ~scan.q.in_section =>
              /\ research_plan.subtopics = << <<"General research topic">> >>
              /\ Len(research_plan.research_questions) = 1
              /\ EndsWith(research_plan.research_questions[1], "?")

C10_Witness ==
    /\ last.node = "planner" /\ last.path = "parsed"
    /\ Len(scan.sub.items) > 7 /\ Len(scan.q.items) > 10
    /\ Len(research_plan.subtopics) = 7
    /\ Len(research_plan.research_questions) = 10

C13_MarkerNamesStage ==
    /\ pc \in {"planner", "researcher", "writer"} => current_agent = pc
    /\ pc = "END" => current_agent = "completed"

\* C13, linear graph alone: the same statement where no router is involved.
C13_MarkerNamesStageLinear == graph = "linear" => C13_MarkerNamesStage

\* The nodes invoked so far are the planner, then Research calls, then (at
\* most once, last) the writer.
InStageOrder(seq) ==
    \A i \in 1..Len(seq) :
        /\ seq[i] = "planner" <=> i = 1
        /\ seq[i] = "writer" => i = Len(seq) /\ i >= 3
        /\ seq[i] \in {"planner", "researcher", "writer"}

C15_EmptyWithoutSection ==
    /\ scan.segments >= 1 /\ ~scan.sub.in_section => SubtopicsResult(scan.sub) = <<>>
    /\ scan.segments >= 1 /\ ~scan.q.in_section => QuestionsResult(scan.q) = <<>>

\* C15, amended: for a text with no line that has the section keyword and a
\* colon, _extract_subtopics and _extract_research_questions themselves
\* return the single fallback entry, never the empty list, and the caller
\* puts what they return into the plan as it is.
C15_FallbackInsideExtractor ==
    /\ ~scan.sub.in_section =>
          SubtopicsResult(scan.sub) = << <<"General research topic">> >>
    /\ ~scan.q.in_section =>
          QuestionsResult(scan.q) = << <<"What are the key aspects of this topic", "?">> >>
    /\ SubtopicsResult(scan.sub) # <<>> /\ QuestionsResult(scan.q) # <<>>
    /\ last.node = "planner" /\ last.path = "parsed" =>
          /\ research_plan.subtopics = SubtopicsResult(scan.sub)
          /\ research_plan.research_questions = QuestionsResult(scan.q)

\* The planner has parsed an answer of several lines, none of them a
\* section header.
C15_Witness ==
    /\ last.node = "planner" /\ last.path = "parsed"
    /\ scan.segments >= 2
    /\ ~scan.sub.in_section /\ ~scan.q.in_section
    /\ research_plan.subtopics = << <<"General research topic">> >>

\* The dict the code reads the three keys from, if the payload has one: the
\* decoded object, or the first element of the decoded non-empty array.
HasRecord(payload) ==
    \/ payload.decoded.json = "object"
    \/ payload.decoded.json = "array" /\ payload.decoded.first # Absent
PayloadRecord(payload) ==
    IF payload.decoded.json = "object" THEN payload.decoded
    ELSE IF payload.decoded.json = "array" /\ payload.decoded.first.json = "object"
    THEN payload.decoded.first
    ELSE Object(Absent, Absent, Absent)

WellTypedRecord(payload) ==
    LET d == PayloadRecord(payload)
    IN  /\ payload.decoded.json = "array" => payload.decoded.first.json = "object"
        /\ d.content.json \in {"absent", "string"}
        /\ d.url.json \in {"absent", "string"}
        /\ d.score.json \in {"absent", "number"}

C17_ZeroResultsHeaderOnBothPaths ==
    pc = "END" /\ research_results = <<>> =>
        /\ StatesSourceCount(final_report.blocks, 0)
        /\ ~HasSourcesSection(final_report.blocks)

\* C17, amended: when the Write Stage has run with zero results, the report
\* of the model path starts with the metadata header, which states a source
\* count of 0, and has no Sources appendix; the report of the exception path
\* has no Sources appendix either, and it states no source count at all.
C17_ZeroResultsReport ==
    pc = "END" /\ research_results = <<>> =>
        /\ ~HasSourcesSection(final_report.blocks)
        /\ final_report.by = "_enhance_report_formatting" =>
              /\ last.path = "success"
              /\ final_report.blocks[1] =
                    Block("**Sources Consulted:**", 0, research_iterations)
              /\ StatesSourceCount(final_report.blocks, 0)
        /\ final_report.by = "_create_fallback_report" =>
              /\ last.path = "exception"
              /\ \A i \in 1..Len(final_report.blocks) :
                    final_report.blocks[i].block \notin
                        {"**Sources Consulted:**", "**Total Sources Consulted:**"}
        /\ final_report.by \in {"_enhance_report_formatting", "_create_fallback_report"}

\* The writer's model call raised in a run that had a request and gathered
\* no results in two Research calls.
C17_Witness ==
    /\ pc = "END" /\ research_results = <<>>
    /\ user_messages(messages) # <<>>
    /\ Invocations("researcher") = 2
    /\ final_report.by = "_create_fallback_report"

\* C18: when the config passed to a graph factory holds a checkpointer, the
\* graph the factory returns has been compiled with that checkpointer, and
\* the checkpointer's setup() (where it has one) has been called by then.
C18_CompiledWithSuppliedCheckpointer ==
    factory.pc = "returned" /\ factory.config.checkpointer # "None" =>
        /\ factory.compiled_with = factory.config.checkpointer
        /\ factory.has_setup => factory.setup_calls >= 1

\* C19: once create_research_graph_with_persistence has returned its graph,
\* the PostgreSQL checkpointer it opened for it is still open.
C19_CheckpointerOpenAfterReturn ==
    /\ factory.pc = "returned"
    /\ factory.caller = "create_research_graph_with_persistence"
    => factory.open

\* C20: once cancellation has been requested, at most the stage invocation
\* in flight at that moment completes: no Research call starts after it, and
\* research_iterations grows by no more than that one call's increment.
C20_CancellationHonoured ==
    cancel.requested =>
        /\ stage_invocations <= cancel.at_invocations + 1
        /\ research_iterations <= cancel.at_iterations + 1
        /\ \A i \in (cancel.at_invocations + 2)..Len(invoked) : invoked[i] # "researcher"

\* C21: two runs that start from the same default research_results list
\* and whose stage invocations interleave in any way do not see each
\* other's results: the list a run holds has the results of that run's own
\* Research calls, in order, and no others; the default list stays empty;
\* and a finished run's report counts its own results.
C21_RunsDoNotShareResults ==
    /\ two.heap[DefaultList] = <<>>
    /\ \A r \in {1, 2} :
          /\ two.heap[two.runs[r].research_results] = two.runs[r].own
          /\ \A i \in 1..Len(two.heap[two.runs[r].research_results]) :
                two.heap[two.runs[r].research_results][i].run = r
          /\ two.runs[r].pc = "END" /\ two.runs[r].own = <<>> =>
                ~HasSourcesSection(two.runs[r].final_report.blocks)

\* Both runs have gathered results, run 2 made its first Research call
\* after run 1 had stored results, and run 1 has finished.
C21_Witness ==
    /\ two.runs[1].pc = "END" /\ two.runs[2].pc = "router"
    /\ two.runs[1].own # <<>> /\ two.runs[2].own # <<>>
    /\ two.runs[1].research_results < two.runs[2].research_results
    /\ two.runs[2].research_iterations = 1

\* The results made from a message's text.
Synthesized(results) ==
    SelectSeq(results, LAMBDA x : x.source = "Research agent analysis")

\* C22: a result made from transcript text (source "Research agent
\* analysis", score 0.7) is among the new results only when no message of
\* the transcript has tool calls, and one Research call yields at most one
\* such result.
C22_TextResultOnlyWithoutToolCalls ==
    extraction.pc = "new_results" =>
        LET synthesized == Synthesized(extraction.results)
        IN  /\ synthesized # <<>> =>
                  \A i \in 1..Len(extraction.messages) :
                      extraction.messages[i].tool_calls = <<>>
            /\ Len(synthesized) <= 1

\* C22, second half alone: at most one such result per Research call.
C22_AtMostOneTextResult ==
    extraction.pc = "new_results" => Len(Synthesized(extraction.results)) <= 1

\* The generated text had "sources:" in it; the lines of the appendix that
\* name a given source.
TextMentionsSources(report) ==
    \E i \in 1..Len(report) : report[i].block = "model text with sources:"
LinesNaming(report, source) ==
    SelectSeq(report, LAMBDA b : b.block = source)
FirstWith(results, source) ==
    CHOOSE i \in 1..Len(results) :
        /\ results[i].source = source
        /\ \A j \in 1..(i - 1) : results[j].source # source

\* C23, as stated: the report of the model path has the Sources appendix
\* exactly when the generated text has no "sources:" (in any case of
\* letters) and some result has a source other than "Unknown source".
C23_AppendixIffKnownSource ==
    pc = "END" /\ final_report.by = "_enhance_report_formatting" =>
        (HasSourcesSection(final_report.blocks)
            <=> /\ ~TextMentionsSources(final_report.blocks)
                /\ \E i \in 1..Len(research_results) :
                      research_results[i].source # "Unknown source")

\* C23, amended: the report of the model path has the Sources appendix
\* exactly when the generated text has no "sources:" and there is at least
\* one result, whatever its source; the appendix then has one line for each
\* distinct source other than "Unknown source", numbered by the place of
\* the first result with that source, and none for "Unknown source" (so it
\* may be a heading without lines).
C23_AppendixIffResults ==
    pc = "END" /\ final_report.by = "_enhance_report_formatting" =>
        LET report == final_report.blocks
        IN  /\ HasSourcesSection(report)
                  <=> (~TextMentionsSources(report) /\ research_results # <<>>)
            /\ LinesNaming(report, "Unknown source") = <<>>
            /\ \A i \in 1..Len(research_results) :
                  LET source == research_results[i].source
                  IN  source # "Unknown source" =>
                        LinesNaming(report, source) =
                            IF HasSourcesSection(report)
                            THEN <<Block(source, FirstWith(research_results, source), 0)>>
                            ELSE <<>>

\* A report of the model path has the appendix heading and no line under
\* it: there were two or more results, all from "Unknown source".
C23_Witness ==
    /\ pc = "END" /\ final_report.by = "_enhance_report_formatting"
    /\ Len(research_results) >= 2
    /\ \A i \in 1..Len(research_results) : research_results[i].source = "Unknown source"
    /\ HasSourcesSection(final_report.blocks)
    /\ final_report.blocks[Len(final_report.blocks)] = Block("## Sources", 0, 0)

\* C24: when the Plan Stage has fallen back, because the model call or the
\* extraction raised, and the messages have at least one user message, the
\* plan's main_topic is the content of the last user message, also when the
\* last message is not a user message.
C24_FallbackTopicIsLastUserMessage ==
    /\ last.node = "planner" /\ last.path \in {"exception", "parse_failure"}
    /\ user_messages(messages) # <<>>
    => research_plan.main_topic =
           user_messages(messages)[Len(user_messages(messages))].content

\* The reference window of C25: size items of seq from offset on, in order,
\* as many as the list has.
Window(seq, offset, size) ==
    LET end == IF offset + size < Len(seq) THEN offset + size ELSE Len(seq)
    IN  [i \in 1..(IF end > offset THEN end - offset ELSE 0) |-> seq[offset + i]]

\* C25: the focus slice of iteration k is, for k = 1, the first min(3, s)
\* subtopics and the first min(5, q) questions, and for k > 1 the window of
\* max(2, s div max_iterations) subtopics from offset (k-1) * size on and of
\* max(3, q div max_iterations) questions from (k-1) * size on, clipped to
\* the list, in the list's order.
C25_FocusSliceIsReference ==
    focus.pc = "agent" =>
        LET k == focus.research_iterations + 1
            subtopics == focus.research_plan.subtopics
            questions == focus.research_plan.research_questions
            w == max(2, Len(subtopics) \div focus.max_research_iterations)
            v == max(3, Len(questions) \div focus.max_research_iterations)
        IN  IF k = 1
            THEN /\ focus.instructions.focus_areas = Window(subtopics, 0, 3)
                 /\ focus.instructions.focus_questions = Window(questions, 0, 5)
            ELSE /\ focus.instructions.focus_areas = Window(subtopics, (k - 1) * w, w)
                 /\ focus.instructions.focus_questions =
                        Window(questions, (k - 1) * v, v)

\* A later iteration whose window of subtopics is cut short by the end of
\* the list while its window of questions is whole.
C25_Witness ==
    /\ focus.pc = "agent"
    /\ focus.research_iterations >= 1
    /\ Len(focus.instructions.focus_areas) = 1
    /\ Len(focus.instructions.focus_questions) = 3

\* C30: the focus-slice computation never divides by zero: with
\* research_iterations >= 0, the division by max_research_iterations is
\* reached only when max_research_iterations > research_iterations >= 1,
\* and it does not raise, because the limit check returns before it
\* whenever research_iterations >= max_research_iterations.
C30_DivisionOnlyWithinBudget ==
    /\ focus.pc \notin {"None", "call"}
    /\ focus.research_iterations >= 0
    /\ focus.instructions.divided
    => /\ focus.max_research_iterations > focus.research_iterations
       /\ focus.research_iterations >= 1
       /\ ~focus.instructions.raised
       /\ focus.pc = "agent"

\* The last iteration the budget allows has divided by the budget.
C30_Witness ==
    /\ focus.pc = "agent"
    /\ focus.instructions.divided
    /\ focus.max_research_iterations = focus.research_iterations + 1

\* The characters C26 says are stripped: hyphen, bullet, asterisk, every
\* digit 0 through 9, full stop and space.
NumberingChars ==
    {"-", "bullet", "*", "0", "1", "2", "3", "4", "5", "6", "7", "8", "9", ".", " "}

\* C26 (as claimed): the section-item extractors strip every leading bullet
\* or numbering character, the digit 0 included, so no subtopic and no
\* question they take begins with one; a line numbered "10. text" gives "text".
C26_ItemsStartAfterNumbering ==
    /\ \A i \in 1..Len(scan.sub.items) : Head(scan.sub.items[i]) \notin NumberingChars
    /\ \A i \in 1..Len(scan.q.items) : Head(scan.q.items[i]) \notin NumberingChars

\* C27 (as claimed): every Result the Research Stage takes from a transcript
\* has a relevance_score within [0, 1] (0 to 10 in tenths), whatever the
\* tool-result payload, one that carries its own 'score' included.
C27_ScoreWithinUnitInterval ==
    extraction.pc = "new_results" =>
        \A i \in 1..Len(extraction.results) :
            /\ extraction.results[i].relevance_score >= 0
            /\ extraction.results[i].relevance_score <= 10

\* C28 (as claimed): every Result the Research Stage takes from a transcript
\* has a content of at most 2000 characters, on every extraction path: JSON
\* object, JSON array, raw text, text synthesis, the extraction-failure
\* fallback and the fallback of a failed result construction.
C28_ContentWithinCap ==
    extraction.pc = "new_results" =>
        \A i \in 1..Len(extraction.results) :
            extraction.results[i].content.len <= ContentCap

\* C29: in every reachable state of a run that starts with
\* research_iterations = 0 and max_research_iterations >= 0, in both graphs,
\* 0 <= research_iterations <= max_research_iterations; and the researcher's
\* exception path, which increments the counter, is never entered with
\* research_iterations >= max_research_iterations.
C29_CounterWithinBudget ==
    /\ 0 <= research_iterations
    /\ research_iterations <= max_research_iterations
    /\ last.node = "researcher" /\ last.path = "exception"
       => last.in_iterations < max_research_iterations

\* The exception path has taken the counter to the budget, in the looped
\* graph, after an earlier iteration.
C29_Witness ==
    /\ graph = "looped"
    /\ last.node = "researcher" /\ last.path = "exception"
    /\ last.in_iterations >= 1
    /\ research_iterations = max_research_iterations

====
